---- MODULE Spec2Model ----
(***************************************************************************)
(* A model of parent.cpp: a parent process that creates two pipes, forks   *)
(* a child that redirects its standard streams to the pipes and runs       *)
(* /bin/cat, and then loops sending "Line: <n>\n" to the child and polling *)
(* the non-blocking read end for whatever the child echoed back.           *)
(*                                                                         *)
(* The specifications share the definitions of GetLine:                    *)
(*   Spec        the whole program (parent, child, kernel pipes, an        *)
(*               environment that may kill the child);                     *)
(*   FairSpec    the same steps, both processes scheduled fairly, started  *)
(*               with the three standard streams open;                     *)
(*   GetLineSpec GetLine alone, called again and again on a descriptor     *)
(*               whose writer feeds arbitrary bytes or closes.             *)
(***************************************************************************)
EXTENDS Integers, Sequences, FiniteSets, TLC

\* ---------------------------------------------------------------- bounds
\* Iterations of the main loop the model follows.
MaxCounter == 6
\* Bytes one pipe holds (65536 on Linux); a full pipe blocks its writer.
PipeCap == 16
\* GetLineSpec: bytes the writer feeds in all.
MaxFeed == 4

\* ------------------------------------------------------ program constants
READ_SIDE == 0
WRITE_SIDE == 1
STDIN_FILENO == 0
STDOUT_FILENO == 1

NL == "\n"

\* Descriptor numbers: three standard streams and four pipe ends.
Fds == 0 .. 6
\* What a descriptor refers to: nothing, an inherited terminal stream, or
\* one end of a pipe (T = to_child, F = from_child; R = read, W = write).
AllClosed == [f \in Fds |-> "closed"]

VARIABLES
    \* parent process (main)
    pc,               \* position in main / GetLine
    pfd,              \* the parent's descriptor table
    to_child,         \* int to_child[2]
    from_child,       \* int from_child[2]
    pid,              \* result of fork() as the parent sees it
    sigpipe,          \* disposition of SIGPIPE, inherited: "default" or "ignore"
    message_counter,
    s,                \* string s = ss.str(), the outbound text
    buffer,           \* string buffer
    error,            \* bool error
    retval,           \* GetLine's return value
    read_return_value,
    needs_a_reset,    \* GetLine's static flag
    errno,            \* the parent's errno
    exc,              \* the string thrown, on its way to the catch clause
    curses,           \* "off", "on" (after initscr), "ended" (after endwin)
    tx_window,        \* lines given to AddLine(tx_window, ..)
    rx_window,        \* lines given to AddLine(rx_window, ..)
    cerr,             \* lines written to standard error
    \* child process
    cpc,              \* position in InitializeChild / cat
    cfd,              \* the child's descriptor table
    cbuf,             \* bytes cat has read and not yet written
    \* kernel
    toPipe,           \* bytes in the to_child pipe
    fromPipe,         \* bytes in the from_child pipe
    nonblock,         \* O_NONBLOCK on the from_child read end
    \* history (observation only; no action's guard reads these)
    consumed,         \* every byte GetLine has read, in order
    reports,          \* the buffer at each return of GetLine with true
    resets,           \* times buffer.erase() ran
    entry,            \* buffer, flag, pending bytes and bytes read so far when
                      \* GetLine was entered
    nreads,           \* read() attempts of the current GetLine call
    prev,             \* GetLineSpec: the call completed before the current one
    fed,              \* GetLineSpec: every byte the writer has written
    goneAt            \* polls completed since the child went away, or -1

vars == <<pc, pfd, to_child, from_child, pid, sigpipe, message_counter, s, buffer, error,
          retval, read_return_value, needs_a_reset, errno, exc, curses,
          tx_window, rx_window, cerr, cpc, cfd, cbuf, toPipe, fromPipe,
          nonblock, consumed, reports, resets, entry, nreads, prev, fed,
          goneAt>>

parentVars == <<pc, pfd, to_child, from_child, pid, sigpipe, message_counter, s, buffer,
                error, retval, read_return_value, needs_a_reset, errno, exc,
                curses, tx_window, rx_window, cerr>>
childVars == <<cpc, cfd, cbuf>>
histVars == <<consumed, reports, resets, entry, nreads, prev, fed>>

\* ---------------------------------------------------------------- helpers
Min(a, b) == IF a < b THEN a ELSE b

Holds(tbl, what) == \E f \in Fds : tbl[f] = what

\* A process that has exited or was killed has every descriptor closed, so
\* the tables alone say whether a pipe end is still open somewhere.
ReaderOpen(end) == Holds(pfd, end) \/ Holds(cfd, end)
WriterOpen(end) == Holds(pfd, end) \/ Holds(cfd, end)

\* pipe(2) hands out the two lowest unused descriptor numbers.
LowestFree(tbl) ==
    CHOOSE f \in Fds : tbl[f] = "closed" /\ \A g \in Fds : g < f => tbl[g] # "closed"

\* dup2(oldfd, newfd): nothing happens when oldfd is not open or equals newfd.
Dup2(tbl, oldfd, newfd) ==
    IF tbl[oldfd] = "closed" \/ oldfd = newfd THEN tbl
    ELSE [tbl EXCEPT ![newfd] = tbl[oldfd]]

Close(tbl, fd) == [tbl EXCEPT ![fd] = "closed"]

\* operator<< of an unsigned integer: its decimal digits.
RECURSIVE Digits(_)
Digits(n) ==
    LET d == <<"0", "1", "2", "3", "4", "5", "6", "7", "8", "9">>[(n % 10) + 1]
    IN  IF n < 10 THEN <<d>> ELSE Append(Digits(n \div 10), d)

\* ss << "Line: " << message_counter++ << endl
Message_PreIncrement(n) == <<"L", "i", "n", "e", ":", " ">> \o Digits(n + 1) \o <<NL>>
Message(n) == <<"L", "i", "n", "e", ":", " ">> \o Digits(n) \o <<NL>>

\* GetLine, after its read loop: read_return_value <= 0 and errno != EAGAIN.
ErrorAfterLoop_NoTestOfRead(rrv, e) == e # "EAGAIN"
ErrorAfterLoop(rrv, e) == rrv <= 0 /\ e # "EAGAIN"

\* ------------------------------------------------------------------- Init
StartTables ==
    { [f \in Fds |-> IF f \in S THEN "tty" ELSE "closed"] : S \in SUBSET {0, 1, 2} }

NoEntry == [buffer |-> <<>>, needs_a_reset |-> TRUE, pending |-> <<>>, consumed |-> 0]
NoCall == [made |-> FALSE, ret |-> FALSE, err |-> FALSE, buf |-> <<>>,
           pending |-> <<>>, partial |-> <<>>]

Init ==
    /\ pc = "InitializeWindows"
    /\ pfd \in StartTables
    /\ to_child = [i \in {READ_SIDE, WRITE_SIDE} |-> -1]
    /\ from_child = [i \in {READ_SIDE, WRITE_SIDE} |-> -1]
    /\ pid = "unset"
    /\ sigpipe \in {"default", "ignore"}
    /\ message_counter = 0
    /\ s = <<>>
    /\ buffer = <<>>
    /\ error = FALSE
    /\ retval = FALSE
    /\ read_return_value = 0
    /\ needs_a_reset = TRUE
    /\ errno = "0"
    /\ exc = ""
    /\ curses = "off"
    /\ tx_window = <<>>
    /\ rx_window = <<>>
    /\ cerr = <<>>
    /\ cpc = "none"
    /\ cfd = AllClosed
    /\ cbuf = <<>>
    /\ toPipe = <<>>
    /\ fromPipe = <<>>
    /\ nonblock = FALSE
    /\ consumed = <<>>
    /\ reports = <<>>
    /\ resets = 0
    /\ entry = NoEntry
    /\ nreads = 0
    /\ prev = NoCall
    /\ fed = <<>>
    /\ goneAt = -1

\* ------------------------------------------------------- main, before the loop
\* initscr() may fail; what it leaves in errno is not specified.
InitializeWindows ==
    /\ pc = "InitializeWindows"
    /\ \/ /\ curses' = "on"
          /\ \E e \in {"0", "ENOTTY"} : errno' = e
          /\ pc' = "pipe_to"
          /\ exc' = exc
       \/ /\ exc' = "Curses failed to initialize"
          /\ pc' = "catch"
          /\ UNCHANGED <<curses, errno>>
    /\ UNCHANGED <<pfd, to_child, from_child, pid, sigpipe, message_counter, s, buffer, error,
                   retval, read_return_value, needs_a_reset, tx_window, rx_window,
                   cerr, childVars, toPipe, fromPipe, nonblock, histVars, goneAt>>

\* if (pipe(to_child) < 0) throw ...
PipeToChild ==
    /\ pc = "pipe_to"
    /\ \/ LET r == LowestFree(pfd)
              w == LowestFree([pfd EXCEPT ![r] = "TR"])
          IN  /\ pfd' = [pfd EXCEPT ![r] = "TR", ![w] = "TW"]
              /\ to_child' = [to_child EXCEPT ![READ_SIDE] = r, ![WRITE_SIDE] = w]
              /\ pc' = "pipe_from"
              /\ exc' = exc
       \/ /\ exc' = "Pipe to child failed to allocate."
          /\ pc' = "catch"
          /\ UNCHANGED <<pfd, to_child>>
    /\ UNCHANGED <<from_child, pid, sigpipe, message_counter, s, buffer, error, retval,
                   read_return_value, needs_a_reset, errno, curses, tx_window,
                   rx_window, cerr, childVars, toPipe, fromPipe, nonblock,
                   histVars, goneAt>>

\* if (pipe(from_child) < 0) throw ...
PipeFromChild ==
    /\ pc = "pipe_from"
    /\ \/ LET r == LowestFree(pfd)
              w == LowestFree([pfd EXCEPT ![r] = "FR"])
          IN  /\ pfd' = [pfd EXCEPT ![r] = "FR", ![w] = "FW"]
              /\ from_child' = [from_child EXCEPT ![READ_SIDE] = r, ![WRITE_SIDE] = w]
              /\ pc' = "fork"
              /\ exc' = exc
       \/ /\ exc' = "Pipe from child failed to allocate."
          /\ pc' = "catch"
          /\ UNCHANGED <<pfd, from_child>>
    /\ UNCHANGED <<to_child, pid, sigpipe, message_counter, s, buffer, error, retval,
                   read_return_value, needs_a_reset, errno, curses, tx_window,
                   rx_window, cerr, childVars, toPipe, fromPipe, nonblock,
                   histVars, goneAt>>

\* pid_t pid = fork(); if (!pid) InitializeChild(..);
\* The child gets a copy of the descriptor table.  A failed fork returns -1,
\* which !pid does not catch: the caller goes on as the parent.
Fork ==
    /\ pc = "fork"
    /\ \/ /\ pid' = "child"
          /\ cpc' = "dup2_in"
          /\ cfd' = pfd
       \/ /\ pid' = "-1"
          /\ UNCHANGED <<cpc, cfd>>
    /\ pc' = "InitializeParent"
    /\ UNCHANGED <<pfd, to_child, from_child, sigpipe, message_counter, s, buffer, error,
                   retval, read_return_value, needs_a_reset, errno, exc, curses,
                   tx_window, rx_window, cerr, cbuf, toPipe, fromPipe, nonblock,
                   histVars, goneAt>>

\* close(to_child[READ_SIDE]); close(from_child[WRITE_SIDE]);
\* fcntl(from_child[READ_SIDE], F_SETFL, flags | O_NONBLOCK);
\* flags | O_NONBLOCK: the bit is set whatever the flags were.
OrNonblock_Forgotten(flags) == flags
OrNonblock(flags) == TRUE

InitializeParent ==
    /\ pc = "InitializeParent"
    /\ pfd' = Close(Close(pfd, to_child[READ_SIDE]), from_child[WRITE_SIDE])
    /\ nonblock' = IF pfd'[from_child[READ_SIDE]] = "FR" THEN OrNonblock(nonblock)
                   ELSE nonblock
    /\ pc' = "loop"
    /\ UNCHANGED <<to_child, from_child, pid, sigpipe, message_counter, s, buffer, error,
                   retval, read_return_value, needs_a_reset, errno, exc, curses,
                   tx_window, rx_window, cerr, childVars, toPipe, fromPipe,
                   histVars, goneAt>>

\* catch (const string s) { cerr << s << endl; }  return 0;
Catch ==
    /\ pc = "catch"
    /\ cerr' = Append(cerr, exc)
    /\ pc' = "exited"
    /\ pfd' = AllClosed
    /\ UNCHANGED <<to_child, from_child, pid, sigpipe, message_counter, s, buffer, error,
                   retval, read_return_value, needs_a_reset, errno, exc, curses,
                   tx_window, rx_window, childVars, toPipe, fromPipe, nonblock,
                   histVars, goneAt>>

\* ------------------------------------------------------------ the main loop
\* stringstream ss; ss << "Line: " << message_counter++ << endl;
\* string s = ss.str();
NextCounter_Stuck(n) == n
NextCounter(n) == n + 1

LoopBuild ==
    /\ pc = "loop"
    /\ message_counter < MaxCounter
    /\ s' = Message(message_counter)
    /\ message_counter' = NextCounter(message_counter)
    /\ pc' = "write"
    /\ UNCHANGED <<pfd, to_child, from_child, pid, sigpipe, buffer, error, retval,
                   read_return_value, needs_a_reset, errno, exc, curses,
                   tx_window, rx_window, cerr, childVars, toPipe, fromPipe,
                   nonblock, histVars, goneAt>>

\* write(to_child[WRITE_SIDE], s.c_str(), s.size()); AddLine(tx_window, ..);
\* The write is a blocking write of fewer than PIPE_BUF bytes: it waits until
\* the whole text fits.  With no reader left on the pipe it raises SIGPIPE.
\* With the default disposition the process dies inside write(); when the
\* program was started with SIGPIPE ignored, write() returns -1 with errno
\* EPIPE: main does not look at the result and goes on to AddLine.
LoopSend ==
    /\ pc = "write"
    /\ pfd[to_child[WRITE_SIDE]] = "TW"
    /\ IF ~ReaderOpen("TR") /\ sigpipe = "default"
       THEN /\ pc' = "sigpipe"
            /\ pfd' = AllClosed
            /\ UNCHANGED <<toPipe, tx_window, errno>>
       ELSE IF ~ReaderOpen("TR")
       THEN /\ errno' = "EPIPE"
            /\ tx_window' = Append(tx_window, s)
            /\ pc' = "call_GetLine"
            /\ UNCHANGED <<toPipe, pfd>>
       ELSE /\ Len(toPipe) + Len(s) <= PipeCap
            /\ toPipe' = toPipe \o s
            /\ tx_window' = Append(tx_window, s)
            /\ pc' = "call_GetLine"
            /\ UNCHANGED <<pfd, errno>>
    /\ UNCHANGED <<to_child, from_child, pid, sigpipe, message_counter, s, buffer,
                   error, retval, read_return_value, needs_a_reset, exc, curses,
                   rx_window, cerr, childVars, fromPipe, nonblock, histVars,
                   goneAt>>

\* ---------------------------------------------------------------- GetLine
\* bool retval = error = false; int read_return_value = 0;
\* if (needs_a_reset) { buffer.erase(); needs_a_reset = false; }
ResetOnEntry_Always(flag, buf) == <<>>
ResetOnEntry_Never(flag, buf) == buf
ResetOnEntry(flag, buf) == IF flag THEN <<>> ELSE buf

GetLineEntry ==
    /\ pc = "call_GetLine"
    /\ retval' = FALSE
    /\ error' = FALSE
    /\ read_return_value' = 0
    /\ buffer' = ResetOnEntry(needs_a_reset, buffer)
    /\ needs_a_reset' = FALSE
    /\ resets' = IF needs_a_reset THEN resets + 1 ELSE resets
    /\ entry' = [buffer |-> buffer, needs_a_reset |-> needs_a_reset,
                 pending |-> fromPipe, consumed |-> Len(consumed)]
    /\ nreads' = 0
    /\ pc' = "read"
    /\ UNCHANGED <<pfd, to_child, from_child, pid, sigpipe, message_counter, s, errno, exc,
                   curses, tx_window, rx_window, cerr, childVars, toPipe,
                   fromPipe, nonblock, consumed, reports, prev, fed, goneAt>>

\* One turn of  while ((read_return_value = read(fd, &c, 1)) == 1) {..}
\* and, when the loop is left, the test of read_return_value and errno.
\* A read that succeeds or meets end-of-file leaves errno as it was.
\* The byte is appended before it is compared with '\n'.
LineDone_Always(c) == TRUE
LineDone(c) == c = NL

GetLineRead ==
    /\ pc = "read"
    /\ pfd[from_child[READ_SIDE]] = "FR"
    /\ nreads' = nreads + 1
    /\ IF fromPipe # <<>>
       THEN LET c == Head(fromPipe)
            IN  /\ fromPipe' = Tail(fromPipe)
                /\ read_return_value' = 1
                /\ buffer' = Append(buffer, c)
                /\ consumed' = Append(consumed, c)
                /\ retval' = LineDone(c)
                /\ needs_a_reset' = LineDone(c)
                /\ reports' = IF LineDone(c) THEN Append(reports, buffer') ELSE reports
                /\ pc' = IF LineDone(c) THEN "ret" ELSE "read"
                /\ error' = IF LineDone(c) THEN ErrorAfterLoop(1, errno) ELSE error
                /\ errno' = errno
       ELSE IF ~WriterOpen("FW")
       THEN /\ read_return_value' = 0
            /\ error' = ErrorAfterLoop(0, errno)
            /\ pc' = "ret"
            /\ UNCHANGED <<errno, fromPipe, buffer, consumed, retval,
                           needs_a_reset, reports>>
       ELSE /\ nonblock
            /\ read_return_value' = -1
            /\ errno' = "EAGAIN"
            /\ error' = ErrorAfterLoop(-1, errno')
            /\ pc' = "ret"
            /\ UNCHANGED <<fromPipe, buffer, consumed, retval, needs_a_reset,
                           reports>>
    /\ UNCHANGED <<pfd, to_child, from_child, pid, sigpipe, message_counter, s, exc, curses,
                   tx_window, rx_window, cerr, childVars, toPipe, nonblock,
                   resets, entry, prev, fed, goneAt>>

\* if (GetLine(..)) AddLine(rx_window, buffer); if (error) break;
\* Refresh(); sleep_for(250ms);
\* if (error) break;  otherwise Refresh, sleep and the next iteration.
AfterPoll_NoBreak(err) == "loop"
AfterPoll(err) == IF err THEN "endwin" ELSE "loop"

LoopAfterGetLine ==
    /\ pc = "ret"
    /\ rx_window' = IF retval THEN Append(rx_window, buffer) ELSE rx_window
    /\ pc' = AfterPoll(error)
    /\ goneAt' = IF goneAt >= 0 /\ ~error THEN Min(goneAt + 1, 2) ELSE goneAt
    /\ UNCHANGED <<pfd, to_child, from_child, pid, sigpipe, message_counter, s, buffer,
                   error, retval, read_return_value, needs_a_reset, errno, exc,
                   curses, tx_window, cerr, childVars, toPipe, fromPipe,
                   nonblock, histVars>>

\* endwin(); return 0;
Endwin ==
    /\ pc = "endwin"
    /\ curses' = "ended"
    /\ pc' = "exited"
    /\ pfd' = AllClosed
    /\ UNCHANGED <<to_child, from_child, pid, sigpipe, message_counter, s, buffer, error,
                   retval, read_return_value, needs_a_reset, errno, exc,
                   tx_window, rx_window, cerr, childVars, toPipe, fromPipe,
                   nonblock, histVars, goneAt>>

\* -------------------------------------------------------------- the child
\* History: the child goes away while the main loop is running.
InLoop == pc \in {"loop", "write", "call_GetLine", "read", "ret"}
GoneMark == IF goneAt < 0 /\ InLoop THEN 0 ELSE goneAt

\* One system call of InitializeChild at a time, in program order.
ChildStep(at, next, tbl) ==
    /\ cpc = at
    /\ cfd' = tbl
    /\ cpc' = next
    /\ UNCHANGED <<parentVars, cbuf, toPipe, fromPipe, nonblock, histVars, goneAt>>

\* dup2(to_child[READ_SIDE], STDIN_FILENO);
ChildDupStdin ==
    ChildStep("dup2_in", "close_in", Dup2(cfd, to_child[READ_SIDE], STDIN_FILENO))
\* close(to_child[READ_SIDE]);
ChildCloseToRead ==
    ChildStep("close_in", "dup2_out", Close(cfd, to_child[READ_SIDE]))
\* dup2(from_child[WRITE_SIDE], STDOUT_FILENO);
ChildDupStdout ==
    ChildStep("dup2_out", "close_out", Dup2(cfd, from_child[WRITE_SIDE], STDOUT_FILENO))
\* close(from_child[WRITE_SIDE]);
ChildCloseFromWrite ==
    ChildStep("close_out", "close_tw", Close(cfd, from_child[WRITE_SIDE]))
\* close(to_child[WRITE_SIDE]);
ChildCloseToWrite ==
    ChildStep("close_tw", "close_fr", Close(cfd, to_child[WRITE_SIDE]))
\* close(from_child[READ_SIDE]);
ChildCloseFromRead ==
    ChildStep("close_fr", "execl", Close(cfd, from_child[READ_SIDE]))

\* execl("/bin/cat", "cat", "-", nullptr); throw string("Failed to exec ..");
\* On success the descriptor table is kept and cat starts; on failure the
\* throw unwinds to the catch clause of main, in the child.
\* Where the child goes after execl: into cat, or, execl having returned,
\* through the throw to the catch clause of main; never to the statement
\* that follows the call of InitializeChild.
AfterExecl_Returns(replaced) == IF replaced THEN "cat_read" ELSE "InitializeParent"
AfterExecl(replaced) == IF replaced THEN "cat_read" ELSE "catch"

Execl ==
    /\ cpc = "execl"
    /\ \E replaced \in BOOLEAN : cpc' = AfterExecl(replaced)
    /\ UNCHANGED <<parentVars, cfd, cbuf, toPipe, fromPipe, nonblock, histVars,
                   goneAt>>

\* The child's copy of main: catch (const string s) { cerr << s << endl; } return 0;
ChildCatch ==
    /\ cpc = "catch"
    /\ cerr' = Append(cerr, "Failed to exec to ./child.")
    /\ cpc' = "exited"
    /\ cfd' = AllClosed
    /\ goneAt' = GoneMark
    /\ UNCHANGED <<pc, pfd, to_child, from_child, pid, sigpipe, message_counter, s, buffer,
                   error, retval, read_return_value, needs_a_reset, errno, exc,
                   curses, tx_window, rx_window, cbuf, toPipe, fromPipe,
                   nonblock, histVars>>

\* cat: read(0, buf, size) takes whatever the pipe holds (its buffer is larger
\* than a pipe), waits while the pipe is empty and a writer remains, and ends
\* at end-of-file.  cat gives up at once when its standard input or standard
\* output is not an open descriptor.
CatRead ==
    /\ cpc = "cat_read"
    /\ IF cfd[STDIN_FILENO] # "TR" \/ cfd[STDOUT_FILENO] # "FW"
          \/ (toPipe = <<>> /\ ~WriterOpen("TW"))
       THEN /\ cpc' = "exited"
            /\ cfd' = AllClosed
            /\ goneAt' = GoneMark
            /\ UNCHANGED <<cbuf, toPipe>>
       ELSE /\ toPipe # <<>>
            /\ cbuf' = toPipe
            /\ toPipe' = <<>>
            /\ cpc' = "cat_write"
            /\ UNCHANGED <<cfd, goneAt>>
    /\ UNCHANGED <<parentVars, fromPipe, nonblock, histVars>>

\* cat: write(1, buf, n), blocking: as many bytes as the pipe has room for,
\* then the rest.  With no reader left, SIGPIPE ends cat.
CatWrite ==
    /\ cpc = "cat_write"
    /\ IF ~ReaderOpen("FR")
       THEN /\ cpc' = "exited"
            /\ cfd' = AllClosed
            /\ cbuf' = <<>>
            /\ fromPipe' = fromPipe
       ELSE LET k == Min(Len(cbuf), PipeCap - Len(fromPipe))
            IN  /\ k > 0
                /\ fromPipe' = fromPipe \o SubSeq(cbuf, 1, k)
                /\ cbuf' = SubSeq(cbuf, k + 1, Len(cbuf))
                /\ cpc' = IF k = Len(cbuf) THEN "cat_read" ELSE "cat_write"
                /\ cfd' = cfd
    /\ UNCHANGED <<parentVars, toPipe, nonblock, histVars, goneAt>>

\* The environment ends the child (a signal from outside) at any time after
\* the fork: every descriptor the child holds is closed.
ChildLive == cpc \notin {"none", "exited", "killed"}

Kill ==
    /\ ChildLive
    /\ cpc' = "killed"
    /\ cfd' = AllClosed
    /\ cbuf' = <<>>
    /\ goneAt' = GoneMark
    /\ UNCHANGED <<parentVars, toPipe, fromPipe, nonblock, histVars>>

\* ------------------------------------------------------------ the program
Next ==
    \/ InitializeWindows
    \/ PipeToChild
    \/ PipeFromChild
    \/ Fork
    \/ InitializeParent
    \/ Catch
    \/ LoopBuild
    \/ LoopSend
    \/ GetLineEntry
    \/ GetLineRead
    \/ LoopAfterGetLine
    \/ Endwin
    \/ ChildDupStdin
    \/ ChildCloseToRead
    \/ ChildDupStdout
    \/ ChildCloseFromWrite
    \/ ChildCloseToWrite
    \/ ChildCloseFromRead
    \/ Execl
    \/ ChildCatch
    \/ CatRead
    \/ CatWrite
    \/ Kill

Spec == Init /\ [][Next]_vars

\* Both processes keep running: the parent's sleep_for returns and the kernel
\* schedules the child.  Nothing obliges the environment to kill the child.
ParentNext ==
    \/ InitializeWindows
    \/ PipeToChild
    \/ PipeFromChild
    \/ Fork
    \/ InitializeParent
    \/ Catch
    \/ LoopBuild
    \/ LoopSend
    \/ GetLineEntry
    \/ GetLineRead
    \/ LoopAfterGetLine
    \/ Endwin

ChildNext ==
    \/ ChildDupStdin
    \/ ChildCloseToRead
    \/ ChildDupStdout
    \/ ChildCloseFromWrite
    \/ ChildCloseToWrite
    \/ ChildCloseFromRead
    \/ Execl
    \/ ChildCatch
    \/ CatRead
    \/ CatWrite

\* The program started from a shell that left the three standard streams
\* open, which is when the child it makes is an echo child.
InitStandard ==
    /\ Init
    /\ pfd = [f \in Fds |-> IF f \in {0, 1, 2} THEN "tty" ELSE "closed"]

FairSpec ==
    InitStandard /\ [][Next]_vars /\ WF_vars(ParentNext) /\ WF_vars(ChildNext)

\* ------------------------------------------------------------ GetLine alone
\* GetLine called again and again on the non-blocking read end, as main does,
\* while the process at the other end writes any bytes at any moment, or
\* closes.  The state is the one main has built when its loop starts from a
\* shell that left the three standard streams open.
Alphabet == {"a", "b", NL}

InitGetLine ==
    /\ pc = "call_GetLine"
    /\ pfd = [f \in Fds |-> IF f \in {0, 1, 2} THEN "tty"
                             ELSE IF f = 4 THEN "TW"
                             ELSE IF f = 5 THEN "FR" ELSE "closed"]
    /\ to_child = [i \in {READ_SIDE, WRITE_SIDE} |-> IF i = READ_SIDE THEN 3 ELSE 4]
    /\ from_child = [i \in {READ_SIDE, WRITE_SIDE} |-> IF i = READ_SIDE THEN 5 ELSE 6]
    /\ pid = "child"
    /\ sigpipe = "default"
    /\ message_counter = 0
    /\ s = <<>>
    /\ buffer = <<>>
    /\ error = FALSE
    /\ retval = FALSE
    /\ read_return_value = 0
    /\ needs_a_reset = TRUE
    /\ errno \in {"0", "ENOTTY"}
    /\ exc = ""
    /\ curses = "on"
    /\ tx_window = <<>>
    /\ rx_window = <<>>
    /\ cerr = <<>>
    /\ cpc = "writer"
    /\ cfd = [f \in Fds |-> IF f = 0 THEN "TR"
                             ELSE IF f = 1 THEN "FW"
                             ELSE IF f = 2 THEN "tty" ELSE "closed"]
    /\ cbuf = <<>>
    /\ toPipe = <<>>
    /\ fromPipe = <<>>
    /\ nonblock = TRUE
    /\ consumed = <<>>
    /\ reports = <<>>
    /\ resets = 0
    /\ entry = NoEntry
    /\ nreads = 0
    /\ prev = NoCall
    /\ fed = <<>>
    /\ goneAt = -1

\* The writer puts one more byte into the pipe.
Feed ==
    /\ cpc = "writer"
    /\ Len(fed) < MaxFeed
    /\ Len(fromPipe) < PipeCap
    /\ \E c \in Alphabet :
          /\ fromPipe' = Append(fromPipe, c)
          /\ fed' = Append(fed, c)
    /\ UNCHANGED <<parentVars, childVars, toPipe, nonblock, consumed, reports,
                   resets, entry, nreads, prev, goneAt>>

\* The writer closes its descriptors (it exits, or is killed).
CloseWriter ==
    /\ cpc = "writer"
    /\ cpc' = "exited"
    /\ cfd' = AllClosed
    /\ UNCHANGED <<parentVars, cbuf, toPipe, fromPipe, nonblock, histVars, goneAt>>

\* read() fails for a reason other than EAGAIN (EINTR, EIO, ..).
GetLineReadFails ==
    /\ pc = "read"
    /\ nreads' = nreads + 1
    /\ read_return_value' = -1
    /\ errno' = "EIO"
    /\ error' = ErrorAfterLoop(-1, errno')
    /\ pc' = "ret"
    /\ UNCHANGED <<pfd, to_child, from_child, pid, sigpipe, message_counter, s, buffer,
                   retval, needs_a_reset, exc, curses, tx_window, rx_window,
                   cerr, childVars, toPipe, fromPipe, nonblock, consumed,
                   reports, resets, entry, prev, fed, goneAt>>

\* The caller takes GetLine's results as main's loop does,
\* if (GetLine(..)) AddLine(rx_window, buffer);  and calls again.
CallAgain ==
    /\ pc = "ret"
    /\ rx_window' = IF retval THEN Append(rx_window, buffer) ELSE rx_window
    /\ prev' = [made |-> TRUE, ret |-> retval, err |-> error, buf |-> buffer,
                pending |-> entry.pending,
                partial |-> IF entry.needs_a_reset THEN <<>> ELSE entry.buffer]
    /\ pc' = "call_GetLine"
    /\ UNCHANGED <<pfd, to_child, from_child, pid, sigpipe, message_counter, s, buffer,
                   error, retval, read_return_value, needs_a_reset, errno, exc,
                   curses, tx_window, cerr, childVars, toPipe,
                   fromPipe, nonblock, consumed, reports, resets, entry, nreads,
                   fed, goneAt>>

NextGetLine ==
    \/ GetLineEntry
    \/ GetLineRead
    \/ GetLineReadFails
    \/ CallAgain
    \/ Feed
    \/ CloseWriter

GetLineSpec == InitGetLine /\ [][NextGetLine]_vars

\* ================================================================ claims
CountNL(q) == Cardinality({i \in DOMAIN q : q[i] = NL})
FirstNL(q) == CHOOSE i \in DOMAIN q : q[i] = NL /\ \A j \in 1 .. i - 1 : q[j] # NL
\* The bytes before the first newline, that newline, and what follows it.
Preceding(q) == SubSeq(q, 1, FirstNL(q) - 1)
UpToFirstNL(q) == SubSeq(q, 1, FirstNL(q))
AfterFirstNL(q) == SubSeq(q, FirstNL(q) + 1, Len(q))
\* The bytes after the last newline: the line not yet complete.
RECURSIVE AfterLastNL(_)
AfterLastNL(q) == IF CountNL(q) = 0 THEN q ELSE AfterLastNL(AfterFirstNL(q))
IsPrefix(q, t) == Len(q) <= Len(t) /\ SubSeq(t, 1, Len(q)) = q

RECURSIVE TotalLen(_)
TotalLen(lines) == IF lines = <<>> THEN 0 ELSE Len(Head(lines)) + TotalLen(Tail(lines))
Front(q) == SubSeq(q, 1, Len(q) - 1)

Line0 == <<"L", "i", "n", "e", ":", " ", "0", NL>>
\* There is no child: fork failed, or the child was killed, or it ended by
\* itself (exec failed, or cat found a standard stream it cannot use).
ChildAway == pid = "-1" \/ cpc \in {"killed", "exited", "catch"}
\* The child is cat, reading the to_child pipe and writing the from_child pipe.
EchoChild ==
    /\ cpc \in {"cat_read", "cat_write"}
    /\ cfd[STDIN_FILENO] = "TR"
    /\ cfd[STDOUT_FILENO] = "FW"

\* C1: once the first message has been written, the RX window eventually
\* gets a line, unless the child goes away; the first line RX ever gets is
\* "Line: 0\n"; and it gets it within a bounded number of iterations: while
\* RX is empty and the to_child pipe has a reader (no write has failed), the
\* messages sent before the latest one fit in the to_child pipe and cat's
\* buffer together (2 * PipeCap bytes).
C1_Line0Echoed ==
    /\ [](rx_window # <<>> => rx_window[1] = Line0)
    /\ []((rx_window = <<>> /\ tx_window # <<>> /\ ReaderOpen("TR"))
            => TotalLen(Front(tx_window)) <= 2 * PipeCap)
    /\ (tx_window # <<>>) ~> (rx_window # <<>> \/ ChildAway)

\* C1 witness: "Line: 0\n" is on RX while the echo child runs, several
\* iterations after it was sent.
C1_Witness ==
    /\ rx_window = <<Line0>>
    /\ tx_window[1] = Line0
    /\ Len(tx_window) >= 3
    /\ EchoChild

\* C2 (as claimed): once the child has gone away while the loop runs, the
\* loop ends through GetLine's error flag and in no other way, and at most
\* one poll completes without ending it.
C2_ChildGoneEndsLoopByError ==
    goneAt >= 0 => /\ pc # "sigpipe"
                   /\ goneAt <= 1
                   /\ pc \in {"endwin", "exited"} => error

\* C3 (as claimed): whenever the read inside GetLine returns 0 bytes, GetLine
\* returns with error set, whatever the earlier calls and reads did.
C3_EofSetsError ==
    (pc = "ret" /\ read_return_value = 0) => error

\* C4: a call of GetLine whose first read finds no byte (EAGAIN) returns
\* false with error false, and the partial line gathered by earlier calls is
\* still in the buffer, unchanged; the buffer is always exactly the bytes read
\* since the last reported line.
C4_NoDataKeepsPartial ==
    (pc = "ret" /\ nreads = 1 /\ read_return_value = -1 /\ errno = "EAGAIN")
        => /\ ~retval
           /\ ~error
           /\ ~entry.needs_a_reset => buffer = entry.buffer
           /\ buffer = AfterLastNL(consumed)

\* C4 witness: a second call in a row finds no data while a partial line waits.
C4_Witness ==
    /\ pc = "ret" /\ nreads = 1 /\ read_return_value = -1 /\ errno = "EAGAIN"
    /\ prev.made /\ ~prev.ret /\ prev.pending = <<>>
    /\ ~entry.needs_a_reset
    /\ Len(entry.buffer) >= 2
    /\ buffer = entry.buffer

\* C5: when the bytes written hold exactly one newline, GetLine reports
\* nothing until it has read that newline and from then on has reported
\* exactly one line: the bytes that preceded the newline, ended by it.
C5_OneNewlineOneLine ==
    CountNL(fed) = 1
        => /\ CountNL(consumed) = 0 => reports = <<>>
           /\ CountNL(consumed) = 1 => reports = <<Preceding(fed) \o <<NL>>>>

\* C5 witness: a line of two bytes and a newline, put together over several
\* calls, is reported.
C5_Witness ==
    /\ CountNL(fed) = 1
    /\ pc = "ret" /\ retval
    /\ buffer = <<"a", "b", NL>>
    /\ prev.made /\ ~prev.ret
    /\ entry.buffer # <<>>
    /\ reports = <<buffer>>

\* C6: with two complete lines A\n B\n pending when GetLine is called, that
\* call and the next (no read failing) each return true, the first with the
\* buffer A\n (after the partial line earlier calls had gathered, if any) and
\* the second with the buffer B\n.
C6_TwoLinesInOrder ==
    (pc = "ret" /\ prev.made /\ CountNL(prev.pending) >= 2 /\ ~prev.err /\ ~error)
        => /\ prev.ret
           /\ prev.buf = prev.partial \o UpToFirstNL(prev.pending)
           /\ retval
           /\ buffer = UpToFirstNL(AfterFirstNL(prev.pending))

C6_Witness ==
    /\ pc = "ret" /\ prev.made
    /\ prev.pending = <<"a", NL, "b", NL>> /\ prev.partial = <<>>
    /\ prev.ret /\ prev.buf = <<"a", NL>>
    /\ retval /\ buffer = <<"b", NL>>

\* C7 (as claimed): the buffer is empty as soon as a line has been reported,
\* and a poll that reports no line does not reset it.
C7_ResetRightAfterReport ==
    pc = "ret" => /\ retval => buffer = <<>>
                  /\ ~retval => IsPrefix(entry.buffer, buffer)

\* C7 (amended): the buffer still holds the reported line when GetLine
\* returns; erase() runs once at the first call and then exactly once per
\* reported line, at the start of the call that follows the report, whatever
\* that call reports; and no call erases a byte of a line not yet reported.
C7_ResetAtNextCall ==
    /\ resets + (IF needs_a_reset THEN 1 ELSE 0) = Len(reports) + 1
    /\ (pc = "ret" /\ retval) => (buffer # <<>> /\ buffer = reports[Len(reports)])
    /\ ~needs_a_reset => buffer = AfterLastNL(consumed)
    /\ (pc = "ret" /\ ~entry.needs_a_reset) => IsPrefix(entry.buffer, buffer)

\* C7 witness: a poll that reports no line has erased the line reported by
\* the call before it.
C7_Witness ==
    /\ pc = "ret" /\ ~retval /\ ~error
    /\ prev.made /\ prev.ret /\ prev.buf = <<"a", NL>>
    /\ entry.needs_a_reset /\ entry.buffer = prev.buf
    /\ buffer = <<>>
    /\ resets = 2

\* The pipe ends a descriptor table holds, as a set of (descriptor, end).
PipeEnds(tbl) == {<<f, tbl[f]>> : f \in {g \in Fds : tbl[g] \in {"TR", "TW", "FR", "FW"}}}
AfterInitializeParent ==
    pc \in {"loop", "write", "call_GetLine", "read", "ret", "endwin"}
AfterInitializeChild == cpc \in {"execl", "cat_read", "cat_write"}

\* C8 (as claimed): after InitializeParent the parent holds exactly the
\* to_child write end and the from_child read end; after InitializeChild's
\* dup2/close sequence the child holds exactly the to_child read end as
\* descriptor 0 and the from_child write end as descriptor 1.
C8_TwoDescriptorsEach ==
    /\ AfterInitializeParent
          => PipeEnds(pfd) = {<<to_child[WRITE_SIDE], "TW">>, <<from_child[READ_SIDE], "FR">>}
    /\ AfterInitializeChild
          => PipeEnds(cfd) = {<<STDIN_FILENO, "TR">>, <<STDOUT_FILENO, "FW">>}

\* C9 (as claimed): when the child reaches execl, and in cat afterwards,
\* descriptor 0 is the read end of the to_child pipe and descriptor 1 is the
\* write end of the from_child pipe, whatever numbers pipe() returned.
C9_ChildStdStreamsArePipes ==
    AfterInitializeChild
        => /\ cfd[STDIN_FILENO] = "TR"
           /\ cfd[STDOUT_FILENO] = "FW"

\* C10 (as claimed): after a failed fork the program goes to its catch
\* clause and ends: no descriptor is closed while it runs, InitializeParent
\* and the loop are never entered and nothing is sent.
C10_ForkFailureIsFatal ==
    pid = "-1"
        => /\ pc \in {"InitializeParent", "catch", "exited"}
           /\ pc = "exited" => cerr # <<>>
           /\ pc # "exited" => {e[2] : e \in PipeEnds(pfd)} = {"TR", "TW", "FR", "FW"}
           /\ tx_window = <<>>
           /\ message_counter = 0

\* C11 (as claimed): a write to the to_child pipe that fails ends the loop
\* in that iteration: once write() has returned -1 (EPIPE) the text it was
\* given is not put on TX and the program is on its way out.
C11_FailedWriteIsFatal ==
    errno = "EPIPE" => /\ pc \in {"endwin", "exited"}
                       /\ Len(tx_window) < message_counter

\* The diagnostics of the parent on standard error (the child's copy of main
\* writes the exec failure there too).
ExecFailure == "Failed to exec to ./child."
ParentDiagnostics == {i \in DOMAIN cerr : cerr[i] # ExecFailure}

\* C12 (as claimed): whenever the program has ended, the display has been
\* torn down (endwin ran if initscr had succeeded) and one line naming the
\* cause is on standard error.
C12_FatalEndsWithEndwinAndDiagnostic ==
    pc = "exited" => /\ curses # "on"
                     /\ Cardinality(ParentDiagnostics) = 1

\* The bytes of the lines of a window, one after the other.
RECURSIVE Flatten(_)
Flatten(lines) == IF lines = <<>> THEN <<>> ELSE Head(lines) \o Flatten(Tail(lines))

\* C13: when execl returns, the child goes to the catch clause and from there
\* only out of the process; the step that ends it closes its descriptors and
\* touches neither pipe, neither window and not the counter; and while it is
\* on that path or has ended that way, nothing has been taken out of the
\* to_child pipe (it holds the first bytes given to TX) and nothing was ever
\* put into the from_child pipe.
C13_FailedExecEndsChild ==
    /\ [][cpc = "execl" => cpc' \in {"execl", "cat_read", "catch", "killed"}]_vars
    /\ [][cpc = "catch" => cpc' \in {"catch", "exited", "killed"}]_vars
    /\ [][(cpc = "catch" /\ cpc' # "catch")
            => /\ cfd' = AllClosed
               /\ UNCHANGED <<pc, pfd, toPipe, fromPipe, nonblock, tx_window,
                              rx_window, message_counter>>]_vars
    /\ []((cpc = "catch" \/ \E i \in DOMAIN cerr : cerr[i] = ExecFailure)
            => /\ cpc \in {"catch", "exited"}
               /\ cbuf = <<>>
               /\ IsPrefix(toPipe, Flatten(tx_window))
               /\ fromPipe = <<>>
               /\ consumed = <<>>
               /\ rx_window = <<>>)

\* C13 witness: the exec failure is on standard error, the child has ended,
\* and the parent is in its loop with its messages waiting in the pipe.
C13_Witness ==
    /\ \E i \in DOMAIN cerr : cerr[i] = ExecFailure
    /\ cpc = "exited"
    /\ InLoop
    /\ Len(tx_window) >= 2
    /\ toPipe = Flatten(tx_window)

\* The complete lines of a byte sequence, in order, each with its newline.
RECURSIVE Lines(_)
Lines(q) ==
    IF CountNL(q) = 0 THEN <<>> ELSE <<UpToFirstNL(q)>> \o Lines(AfterFirstNL(q))

\* C14: whatever bytes the process at the other end has written, the lines
\* given to RX are the first of the lines it wrote, in its order; and every
\* line read to its newline is on RX (or is the one GetLine has just
\* returned): none is skipped, repeated, split or merged.
C14_RxIsPrefixOfEmitted ==
    /\ IsPrefix(rx_window, Lines(fed))
    /\ rx_window \o (IF pc = "ret" /\ retval THEN <<buffer>> ELSE <<>>) = Lines(consumed)

\* C14 witness: two different lines are on RX in the order written, and a
\* byte written after them is still to be read.
C14_Witness ==
    /\ fed = <<"b", NL, NL, "a">>
    /\ rx_window = <<<<"b", NL>>, <<NL>>>>
    /\ fromPipe = <<"a">>

\* C15: the counter is 0 until the loop starts, goes up by exactly one in
\* each iteration when the message is built, and changes at no other step;
\* the i-th message on TX is "Line: " followed by the decimal digits of i - 1
\* and a newline, so no two messages carry the same value.
C15_CounterNumbersMessages ==
    /\ [](message_counter
            = Len(tx_window) + (IF pc \in {"write", "sigpipe"} THEN 1 ELSE 0))
    /\ [](\A i \in DOMAIN tx_window :
            tx_window[i] = <<"L", "i", "n", "e", ":", " ">> \o Digits(i - 1) \o <<NL>>)
    /\ [](\A i, j \in DOMAIN tx_window : i # j => tx_window[i] # tx_window[j])
    /\ [][(pc = "loop" /\ pc' # "loop") => message_counter' = message_counter + 1]_vars
    /\ [][pc # "loop" => message_counter' = message_counter]_vars

\* C15 witness: the fourth message is being sent while the child echoes.
C15_Witness ==
    /\ pc = "write"
    /\ message_counter = 4
    /\ Len(tx_window) = 3
    /\ s = <<"L", "i", "n", "e", ":", " ", "3", NL>>
    /\ EchoChild

\* The bytes the current call of GetLine has read.
ReadThisCall == SubSeq(consumed, entry.consumed + 1, Len(consumed))

\* C16 (as claimed): from InitializeParent on the read end is non-blocking,
\* and a call of GetLine makes at most one read more than there were bytes
\* pending when it was called.
C16_ReadsBoundedByPendingAtCall ==
    /\ AfterInitializeParent => nonblock
    /\ pc \in {"read", "ret"} => nreads <= Len(entry.pending) + 1

\* C16 (amended): from InitializeParent on the read end is non-blocking, so
\* no read waits; a call of GetLine makes one read for each byte it takes,
\* whether the byte was pending when it was called or was written by the
\* child while it ran, and at most one read more (the one that finds nothing
\* or end-of-file); it takes no byte beyond the first newline.
C16_NeverBlocks ==
    /\ AfterInitializeParent => nonblock
    /\ pc \in {"read", "ret"}
          => /\ nreads = Len(ReadThisCall)
                           + (IF pc = "ret" /\ read_return_value <= 0 THEN 1 ELSE 0)
             /\ CountNL(ReadThisCall) = (IF pc = "ret" /\ retval THEN 1 ELSE 0)
             /\ IsPrefix(entry.pending, ReadThisCall \o fromPipe)

\* C16 witness: a call that found the pipe empty when it was entered has
\* read a whole line the child wrote meanwhile.
C16_Witness ==
    /\ pc = "ret" /\ retval
    /\ entry.pending = <<>>
    /\ nreads = Len(buffer)
    /\ nreads > 1
    /\ nonblock

\* A step of a program that is past its loop.
Ended ==
    /\ pc' \in {"endwin", "exited"}
    /\ Len(toPipe') <= Len(toPipe)
    /\ UNCHANGED <<tx_window, rx_window, message_counter, s>>

\* C17: the step that follows a poll goes to endwin when error is set and to
\* the next iteration (after Refresh and the wait) when it is not, whatever
\* GetLine returned; endwin is reached only with error set; from there the
\* program only ends, with the display torn down, and neither window, the
\* counter nor the outbound text changes any more.
C17_LoopEndsWithErrorPoll ==
    /\ [][(pc = "ret" /\ pc' # "ret")
            => pc' = (IF error THEN "endwin" ELSE "loop")]_vars
    /\ [](pc = "endwin" => (error /\ ~retval /\ read_return_value <= 0))
    /\ [][pc = "endwin" => (pc' = "endwin" \/ (pc' = "exited" /\ curses' = "ended"))]_vars
    /\ [][(pc \in {"endwin", "exited"}) => Ended]_vars

\* C17 witness: the loop went round after a poll that returned a line, was
\* ended by the next poll, and the display is torn down.
C17_Witness ==
    /\ pc = "exited"
    /\ error
    /\ curses = "ended"
    /\ Len(tx_window) = 2
    /\ Len(rx_window) = 1

\* C18: GetLine never returns true with error set; the call that sets error
\* gives nothing to RX; and every line on RX has exactly one newline, its
\* last byte.
C18_LineXorError ==
    /\ [](pc = "ret" => ~(retval /\ error))
    /\ [][(pc = "ret" /\ error) => rx_window' = rx_window]_vars
    /\ [](\A i \in DOMAIN rx_window :
            /\ CountNL(rx_window[i]) = 1
            /\ rx_window[i][Len(rx_window[i])] = NL)

\* C18 witness: a read fails while a partial line is buffered, after a line
\* was forwarded.
C18_Witness ==
    /\ pc = "ret"
    /\ error /\ ~retval
    /\ buffer = <<"a">>
    /\ rx_window = <<<<"b", NL>>>>

\* C19: RX holds the first lines of TX, and never more lines than polls
\* have been completed (one poll in each iteration, after the message of
\* that iteration was put on TX).
C19_OneLinePerIteration ==
    /\ IsPrefix(rx_window, tx_window)
    /\ Len(rx_window)
          <= Len(tx_window) - (IF pc \in {"call_GetLine", "read", "ret"} THEN 1 ELSE 0)

\* C19 witness: a poll that found two complete lines pending has forwarded
\* the first; the second is still in the pipe.
C19_Witness ==
    /\ pc = "loop"
    /\ EchoChild
    /\ CountNL(entry.pending) >= 2
    /\ Len(rx_window) = 1
    /\ CountNL(fromPipe) >= 1
    /\ Len(tx_window) >= 3

====
